---- MODULE Spec2Model ----
(***************************************************************************)
(* The job-lifecycle state machine of src/src/AnalysisDashboard.jsx: the   *)
(* React state of the AnalysisDashboard component, its event handlers, the *)
(* axios calls they leave in flight, and the backend those calls reach.    *)
(*                                                                         *)
(* One action is one JavaScript task: a user event handler run to its      *)
(* first await, or a network response run from the await to the end of     *)
(* every async function it resumes (no other task can interleave with the  *)
(* microtasks in between).  A handler that resumes after an await reads    *)
(* the state values its closure captured when it was called; the captured  *)
(* values travel in the call record.                                       *)
(***************************************************************************)
EXTENDS Integers, Sequences, FiniteSets, Bags, TLC

\* ---------------------------------------------------------------- bounds
MaxCalls == 2        \* axios calls in flight at once
MaxIntents == 4      \* user intents in one session

JobIds == {"j1", "j2"}
Files == {"a.csv"}

\* ------------------------------------------------------------ JS values
NULL == "null"
NoResults == <<>>                 \* results === null
NoToast == <<>>

\* a || b
Or(a, b) == IF a \in {NULL, ""} THEN b ELSE a

\* the results payload the backend holds for job j
Payload(j) == <<"results", j>>

\* the backend keys a job by the hash of the uploaded file
JobOf(f) == IF f = "a.csv" THEN "j1" ELSE "j2"

\* ------------------------------------------------------------- backend
Stages == {"running", "done", "failed"}
Vocabularies == {"celery", "db"}

\* the raw status string an endpoint reports for a job's stage
Render(v, stage) ==
    IF v = "celery"
    THEN CASE stage = "running" -> "STARTED"
           [] stage = "done" -> "SUCCESS"
           [] stage = "failed" -> "FAILURE"
    ELSE CASE stage = "running" -> "RUNNING"
           [] stage = "done" -> "COMPLETED"
           [] stage = "failed" -> "FAILED"

\* an axios error: error.response?.data?.error and error.message
TransportError == [respError |-> NULL, message |-> "Network Error"]
SilentError == [respError |-> NULL, message |-> ""]
BackendError(text) == [respError |-> text, message |-> "Request failed with status code 400"]
NoError == [respError |-> NULL, message |-> NULL]

JobErrorText == "bad header row"
NotFoundText == "Job not found"
UploadErrorText == "Unsupported file"

VARIABLES
    file, jobId, status, results, message, pastJobs, selectedJobId,
    isLoadingJobs, deleteDialogOpen, jobToDelete, isDeleting,
    mounted,      \* the component is mounted and its interval is set
    calls,        \* bag of the axios calls in flight
    srv,          \* backend: stage of each job, "none" when it has no such job
    statusVocab,  \* vocabulary of the upload and status endpoints
    listVocab,    \* vocabulary of the job-statuses endpoint
    intents,      \* user intents so far
    toast,        \* the notification the last task of the page raised
    view          \* the formatter the last render applied, its argument and output

focus == <<jobId, selectedJobId, status, results, message>>
dialog == <<deleteDialogOpen, jobToDelete, isDeleting>>
backend == <<srv, statusVocab, listVocab>>
vars == <<file, jobId, status, results, message, pastJobs, selectedJobId,
          isLoadingJobs, deleteDialogOpen, jobToDelete, isDeleting,
          mounted, calls, srv, statusVocab, listVocab, intents, toast, view>>

\* nothing rendered yet
NoView == [fn |-> "none", arg |-> <<>>, out |-> <<>>, done |-> FALSE]

InitialMessage == <<"Select a data file (CSV/XLSX) and click Analyze.">>

\* ------------------------------------------------------- calls in flight
NoSnapshot == [ready |-> FALSE, jobs |-> {}]

UploadCall(f) ==
    [kind |-> "upload", file |-> f, job |-> NULL, origin |-> "analyze",
     sel |-> NULL, resp |-> NoSnapshot]
StatusCall(id, from) ==
    [kind |-> "status", file |-> NULL, job |-> id, origin |-> from,
     sel |-> NULL, resp |-> NoSnapshot]
\* origin: "silent" (showLoading = false), "manual" (showLoading = true)
ListCall(from) ==
    [kind |-> "list", file |-> NULL, job |-> NULL, origin |-> from,
     sel |-> NULL, resp |-> NoSnapshot]
\* the fetchJobStatuses() that handleDeleteConfirm awaits after deleting id,
\* its closure still holding jobToDelete and selectedJobId
AwaitedListCall(id, selected) ==
    [kind |-> "list", file |-> NULL, job |-> id, origin |-> "delete",
     sel |-> selected, resp |-> NoSnapshot]
\* the closure of handleDeleteConfirm holds jobToDelete and selectedJobId
DeleteCall(id, selected) ==
    [kind |-> "delete", file |-> NULL, job |-> id, origin |-> "confirm",
     sel |-> selected, resp |-> NoSnapshot]

RECURSIVE Issue(_, _)
Issue(bag, cs) ==
    IF cs = <<>> THEN bag
    ELSE Issue(bag (+) SetToBag({Head(cs)}), Tail(cs))

InFlight == BagToSet(calls)
Room(n) == BagCardinality(calls) + n <= MaxCalls

\* the page behind the open (modal) delete dialog takes no clicks
PageActive == mounted /\ ~deleteDialogOpen
CanIntend == intents < MaxIntents

isProcessing == status = "UPLOADING" \/ status = "PENDING" \/ status = "RUNNING"

\* the backend when the page loads: a job of the file to upload is running
\* and the history holds one finished job
InitialServer == [j \in JobIds |-> IF j = "j1" THEN "running" ELSE "done"]

Init ==
    /\ file = NULL
    /\ jobId = NULL
    /\ status = "IDLE"
    /\ results = NoResults
    /\ message = InitialMessage
    /\ pastJobs = {}
    /\ selectedJobId = NULL
    /\ isLoadingJobs = FALSE
    /\ deleteDialogOpen = FALSE
    /\ jobToDelete = NULL
    /\ isDeleting = FALSE
    /\ mounted = TRUE
    /\ calls = SetToBag({ListCall("silent")})
    /\ srv = InitialServer
    /\ statusVocab \in Vocabularies
    /\ listVocab \in Vocabularies
    /\ intents = 0
    /\ toast = NoToast
    /\ view = NoView

\* ------------------------------------------------------ handleFileChange
handleFileChangeKeepsFocus(f) ==
    /\ PageActive /\ CanIntend
    /\ file' = f
    /\ status' = "IDLE"
    /\ results' = NoResults
    /\ message' = <<"Ready to upload file: ", f>>
    /\ intents' = intents + 1
    /\ toast' = NoToast
    /\ UNCHANGED <<jobId, selectedJobId, pastJobs, isLoadingJobs, dialog, mounted,
                   calls, backend, view>>
handleFileChange(f) ==
    /\ PageActive /\ CanIntend
    /\ file' = f
    /\ jobId' = NULL
    /\ selectedJobId' = NULL
    /\ status' = "IDLE"
    /\ results' = NoResults
    /\ message' = <<"Ready to upload file: ", f>>
    /\ intents' = intents + 1
    /\ toast' = NoToast
    /\ UNCHANGED <<pastJobs, isLoadingJobs, dialog, mounted, calls, backend, view>>

\* ----------------------------------------------------------- handleUpload
handleUpload ==
    /\ PageActive /\ CanIntend
    /\ file # NULL /\ ~isProcessing          \* disabled={!file || isProcessing}
    /\ Room(1)
    /\ status' = "UPLOADING"
    /\ message' = <<"Uploading ", file, " to backend...">>
    /\ calls' = Issue(calls, <<UploadCall(file)>>)
    /\ intents' = intents + 1
    /\ toast' = NoToast
    /\ UNCHANGED <<file, jobId, selectedJobId, results, pastJobs, isLoadingJobs,
                   dialog, mounted, backend, view>>

\* POST upload/ as the backend serves it: a finished job for the same file is
\* a cache hit; anything else leaves a job for the file running, and the
\* response reports the task as just submitted
UploadData(f) ==
    IF srv[JobOf(f)] = "done"
    THEN [job_id |-> JobOf(f), status |-> Render(statusVocab, "done"),
          message |-> <<"File already analyzed.">>, from_cache |-> TRUE,
          results |-> Payload(JobOf(f))]
    ELSE [job_id |-> JobOf(f), status |-> "PENDING",
          message |-> <<"File uploaded. Analysis started.">>, from_cache |-> FALSE,
          results |-> NoResults]
UploadErrors == {TransportError, SilentError, BackendError(UploadErrorText)}
CallErrors == {TransportError, BackendError(NotFoundText)}
JobErrors == {JobErrorText, NULL}

\* what handleUpload does with uploadData after the first four setters
UploadResults(data) == IF data.from_cache THEN data.results ELSE NoResults
UploadToast(data) ==
    IF data.from_cache
    THEN <<"success", "File already analyzed! Results loaded from cache.">>
    ELSE NoToast
\* the calls the try block issues before handleUpload ends or awaits again
UploadFollowUpAlwaysFetches(data) == <<StatusCall(data.job_id, "upload")>>
UploadFollowUp(data) ==
    IF data.from_cache
    THEN <<ListCall("silent")>>
    ELSE <<StatusCall(data.job_id, "upload")>>

UploadOk(c) ==
    /\ c.kind = "upload"
    /\ LET data == UploadData(c.file)
       IN /\ srv' = IF data.from_cache THEN srv
                    ELSE [srv EXCEPT ![data.job_id] = "running"]
          /\ jobId' = data.job_id
          /\ selectedJobId' = data.job_id
          /\ status' = data.status
          /\ message' = data.message
          /\ results' = UploadResults(data)
          /\ calls' = Issue(calls (-) SetToBag({c}), UploadFollowUp(data))
          /\ toast' = UploadToast(data)
    /\ UNCHANGED <<file, pastJobs, isLoadingJobs, dialog, mounted, statusVocab,
                   listVocab, intents, view>>

\* the catch block of handleUpload
UploadFailureStatus == "FAILED"
UploadFailureText(e) == Or(Or(e.respError, e.message), "Network error")
UploadFailureMessage(e) == <<"Upload failed: ", UploadFailureText(e)>>
UploadFailureNoRefresh == <<>>
UploadFailureRetries == <<ListCall("silent"), UploadCall("a.csv")>>
UploadFailureFollowUp == <<ListCall("silent")>>

UploadFail(c, e) ==
    /\ c.kind = "upload"
    /\ status' = UploadFailureStatus
    /\ message' = UploadFailureMessage(e)
    /\ calls' = Issue(calls (-) SetToBag({c}), UploadFailureFollowUp)
    /\ toast' = NoToast
    /\ UNCHANGED <<file, jobId, selectedJobId, results, pastJobs, isLoadingJobs,
                   dialog, mounted, backend, intents, view>>

\* ------------------------------------------------------- fetchFinalResult
\* GET status/<id>/ as the backend serves it
StatusData(id, errorText) ==
    [status |-> Render(statusVocab, srv[id]),
     results |-> IF srv[id] = "done" THEN Payload(id) ELSE NoResults,
     error |-> IF srv[id] = "failed" THEN errorText ELSE NULL]

\* the try block: setStatus, then the three-way branch on data.status
FinalStatus(data) == data.status
FinalResults(data) ==
    IF data.status = "SUCCESS" /\ data.results # NoResults THEN data.results
    ELSE IF data.status = "FAILURE" THEN NoResults
    ELSE results
FinalMessageDropsError(data, currentJobId) ==
    IF data.status = "SUCCESS" /\ data.results # NoResults
    THEN <<"Analysis completed successfully! Results displayed.">>
    ELSE IF data.status = "FAILURE"
    THEN <<"Analysis failed: ", "Unknown error">>
    ELSE <<"Job ID ", currentJobId, "... status: ", data.status,
           ". This state should be short-lived.">>
FinalMessage(data, currentJobId) ==
    IF data.status = "SUCCESS" /\ data.results # NoResults
    THEN <<"Analysis completed successfully! Results displayed.">>
    ELSE IF data.status = "FAILURE"
    THEN <<"Analysis failed: ", Or(data.error, "Unknown error")>>
    ELSE <<"Job ID ", currentJobId, "... status: ", data.status,
           ". This state should be short-lived.">>
\* the catch block
FinalErrorStatus == "FAILED"
FinalErrorMessage(e) == <<"Error during result fetch: ", Or(e.respError, e.message), ".">>
\* the finally block, and, when handleUpload awaited the fetch, the
\* fetchJobStatuses() that follows the await
FinalFollowUpNone(from) == <<>>
FinalFollowUp(from) ==
    IF from = "upload"
    THEN <<ListCall("silent"), ListCall("silent")>>
    ELSE <<ListCall("silent")>>

RoomAfter(n) == BagCardinality(calls) - 1 + n <= MaxCalls

StatusOk(c, errorText) ==
    /\ c.kind = "status"
    /\ srv[c.job] # "none"
    /\ RoomAfter(Len(FinalFollowUp(c.origin)))
    /\ LET data == StatusData(c.job, errorText)
       IN /\ status' = FinalStatus(data)
          /\ results' = FinalResults(data)
          /\ message' = FinalMessage(data, c.job)
          /\ toast' = NoToast
    /\ calls' = Issue(calls (-) SetToBag({c}), FinalFollowUp(c.origin))
    /\ UNCHANGED <<file, jobId, selectedJobId, pastJobs, isLoadingJobs, dialog,
                   mounted, backend, intents, view>>

StatusFail(c, e) ==
    /\ c.kind = "status"
    /\ e.respError = NotFoundText => srv[c.job] = "none"
    /\ RoomAfter(Len(FinalFollowUp(c.origin)))
    /\ status' = FinalErrorStatus
    /\ message' = FinalErrorMessage(e)
    /\ toast' = NoToast
    /\ calls' = Issue(calls (-) SetToBag({c}), FinalFollowUp(c.origin))
    /\ UNCHANGED <<file, jobId, selectedJobId, results, pastJobs, isLoadingJobs,
                   dialog, mounted, backend, intents, view>>

\* ------------------------------------------------------- fetchJobStatuses
\* GET job-statuses/ as the backend serves it
Snapshot ==
    {[job_id |-> j, status |-> Render(listVocab, srv[j])] :
        j \in {k \in JobIds : srv[k] # "none"}}

ListServe(c) ==
    /\ c.kind = "list" /\ ~c.resp.ready
    /\ calls' = (calls (-) SetToBag({c}))
                (+) SetToBag({[c EXCEPT !.resp = [ready |-> TRUE, jobs |-> Snapshot]]})
    /\ UNCHANGED <<file, focus, pastJobs, isLoadingJobs, dialog, mounted, backend,
                   intents, toast, view>>

\* the finally block of handleDeleteConfirm
DeleteFinallyKeepsPending ==
    [isDeleting |-> FALSE, deleteDialogOpen |-> FALSE, jobToDelete |-> jobToDelete]
DeleteFinally == [isDeleting |-> FALSE, deleteDialogOpen |-> FALSE, jobToDelete |-> NULL]

\* the finally blocks a returning fetchJobStatuses runs: its own, and that of
\* handleDeleteConfirm when the call was the one it awaited
ListLoadingAlwaysClears(from) == FALSE
ListLoading(from) == IF from = "manual" THEN FALSE ELSE isLoadingJobs
ListDeletingStaysBusy(from) == isDeleting
ListDeleting(from) == IF from = "delete" THEN DeleteFinally.isDeleting ELSE isDeleting
ListDialogOpen(from) ==
    IF from = "delete" THEN DeleteFinally.deleteDialogOpen ELSE deleteDialogOpen
ListJobToDelete(from) == IF from = "delete" THEN DeleteFinally.jobToDelete ELSE jobToDelete

\* setPastJobs(response.data)
ListPayloadMerged(c) == pastJobs \cup c.resp.jobs
ListPayload(c) == c.resp.jobs

ListOk(c) ==
    /\ c.kind = "list" /\ c.resp.ready
    /\ pastJobs' = ListPayload(c)
    /\ isLoadingJobs' = ListLoading(c.origin)
    /\ isDeleting' = ListDeleting(c.origin)
    /\ deleteDialogOpen' = ListDialogOpen(c.origin)
    /\ jobToDelete' = ListJobToDelete(c.origin)
    /\ calls' = calls (-) SetToBag({c})
    /\ toast' = NoToast
    /\ UNCHANGED <<file, focus, mounted, backend, intents, view>>

ListFail(c) ==
    /\ c.kind = "list" /\ ~c.resp.ready
    /\ isLoadingJobs' = ListLoading(c.origin)
    /\ isDeleting' = ListDeleting(c.origin)
    /\ deleteDialogOpen' = ListDialogOpen(c.origin)
    /\ jobToDelete' = ListJobToDelete(c.origin)
    /\ calls' = calls (-) SetToBag({c})
    /\ toast' = NoToast
    /\ UNCHANGED <<file, focus, pastJobs, mounted, backend, intents, view>>

\* -------------------------------------------------------- handleJobSelect
SelectAlwaysFetches(currentStatus) == TRUE
SelectFetches(currentStatus) == currentStatus = "SUCCESS" \/ currentStatus = "COMPLETED"
SelectMessage(id, currentStatus) ==
    IF SelectFetches(currentStatus)
    THEN <<"Fetching completed results for Job ID: ", id, "...">>
    ELSE <<"Job ID ", id, "... is currently ", currentStatus,
           ". Status list will update automatically.">>
SelectFollowUp(id, currentStatus) ==
    IF SelectFetches(currentStatus) THEN <<StatusCall(id, "select")>> ELSE <<>>

handleJobSelectKeepsDisplayed(id, currentStatus) ==
    /\ PageActive /\ CanIntend
    /\ Room(Len(SelectFollowUp(id, currentStatus)))
    /\ selectedJobId' = id
    /\ results' = NoResults
    /\ status' = currentStatus
    /\ message' = SelectMessage(id, currentStatus)
    /\ calls' = Issue(calls, SelectFollowUp(id, currentStatus))
    /\ intents' = intents + 1
    /\ toast' = NoToast
    /\ UNCHANGED <<file, jobId, pastJobs, isLoadingJobs, dialog, mounted, backend, view>>
handleJobSelect(id, currentStatus) ==
    /\ PageActive /\ CanIntend
    /\ Room(Len(SelectFollowUp(id, currentStatus)))
    /\ selectedJobId' = id
    /\ jobId' = id
    /\ results' = NoResults
    /\ status' = currentStatus
    /\ message' = SelectMessage(id, currentStatus)
    /\ calls' = Issue(calls, SelectFollowUp(id, currentStatus))
    /\ intents' = intents + 1
    /\ toast' = NoToast
    /\ UNCHANGED <<file, pastJobs, isLoadingJobs, dialog, mounted, backend, view>>

\* ------------------------------------------------------------ delete flow
handleDeleteClick(id) ==
    /\ PageActive /\ CanIntend
    /\ jobToDelete' = id
    /\ deleteDialogOpen' = TRUE
    /\ intents' = intents + 1
    /\ toast' = NoToast
    /\ UNCHANGED <<file, focus, pastJobs, isLoadingJobs, isDeleting, mounted, calls,
                   backend, view>>

\* the Delete button of the dialog: disabled={isDeleting}
handleDeleteConfirm ==
    /\ mounted /\ deleteDialogOpen /\ ~isDeleting /\ CanIntend
    /\ jobToDelete # NULL
    /\ Room(1)
    /\ isDeleting' = TRUE
    /\ calls' = Issue(calls, <<DeleteCall(jobToDelete, selectedJobId)>>)
    /\ intents' = intents + 1
    /\ toast' = NoToast
    /\ UNCHANGED <<file, focus, pastJobs, isLoadingJobs, deleteDialogOpen, jobToDelete,
                   mounted, backend, view>>

\* the Cancel button (disabled={isDeleting}) and the dialog's onClose, which
\* a click on the backdrop or the Escape key fires whatever isDeleting is
handleDeleteCancelKeepsPending ==
    /\ mounted /\ deleteDialogOpen /\ CanIntend
    /\ deleteDialogOpen' = FALSE
    /\ intents' = intents + 1
    /\ toast' = NoToast
    /\ UNCHANGED <<file, focus, pastJobs, isLoadingJobs, isDeleting, jobToDelete,
                   mounted, calls, backend, view>>
handleDeleteCancel ==
    /\ mounted /\ deleteDialogOpen /\ CanIntend
    /\ deleteDialogOpen' = FALSE
    /\ jobToDelete' = NULL
    /\ intents' = intents + 1
    /\ toast' = NoToast
    /\ UNCHANGED <<file, focus, pastJobs, isLoadingJobs, isDeleting, mounted, calls,
                   backend, view>>

\* after a successful delete: the focus reset, guarded by the selectedJobId
\* and jobToDelete the closure holds
DeleteResetsInverted(c) == c.sel # c.job
DeleteResets(c) == c.sel = c.job
DeleteFocus(c) ==
    IF DeleteResets(c)
    THEN [selectedJobId |-> NULL, jobId |-> NULL, results |-> NoResults,
          status |-> "IDLE", message |-> InitialMessage]
    ELSE [selectedJobId |-> selectedJobId, jobId |-> jobId, results |-> results,
          status |-> status, message |-> message]
DeleteOkToast == <<"success", "Job deleted successfully!">>
DeleteFollowUp(c) == <<AwaitedListCall(c.job, c.sel)>>

DeleteOk(c) ==
    /\ c.kind = "delete"
    /\ srv[c.job] # "none"
    /\ srv' = [srv EXCEPT ![c.job] = "none"]
    /\ selectedJobId' = DeleteFocus(c).selectedJobId
    /\ jobId' = DeleteFocus(c).jobId
    /\ results' = DeleteFocus(c).results
    /\ status' = DeleteFocus(c).status
    /\ message' = DeleteFocus(c).message
    /\ calls' = Issue(calls (-) SetToBag({c}), DeleteFollowUp(c))
    /\ toast' = DeleteOkToast
    /\ UNCHANGED <<file, pastJobs, isLoadingJobs, dialog, mounted, statusVocab,
                   listVocab, intents, view>>

\* the catch block of handleDeleteConfirm
DeleteFailToast(e) == <<"error", "Failed to delete job: ", Or(e.respError, e.message)>>

DeleteFailResetsFocus(c, e) ==
    /\ c.kind = "delete"
    /\ e.respError = NotFoundText => srv[c.job] = "none"
    /\ isDeleting' = DeleteFinally.isDeleting
    /\ deleteDialogOpen' = DeleteFinally.deleteDialogOpen
    /\ jobToDelete' = DeleteFinally.jobToDelete
    /\ selectedJobId' = NULL /\ jobId' = NULL /\ results' = NoResults
    /\ status' = "IDLE" /\ message' = InitialMessage
    /\ calls' = calls (-) SetToBag({c})
    /\ toast' = DeleteFailToast(e)
    /\ UNCHANGED <<file, pastJobs, isLoadingJobs, mounted, backend, intents, view>>
DeleteFail(c, e) ==
    /\ c.kind = "delete"
    /\ e.respError = NotFoundText => srv[c.job] = "none"
    /\ isDeleting' = DeleteFinally.isDeleting
    /\ deleteDialogOpen' = DeleteFinally.deleteDialogOpen
    /\ jobToDelete' = DeleteFinally.jobToDelete
    /\ calls' = calls (-) SetToBag({c})
    /\ toast' = DeleteFailToast(e)
    /\ UNCHANGED <<file, focus, pastJobs, isLoadingJobs, mounted, backend, intents, view>>

\* ------------------------------------------------ polling and refresh now
TickAfterUnmount ==
    /\ Room(1)
    /\ calls' = Issue(calls, <<ListCall("silent")>>)
    /\ toast' = NoToast
    /\ UNCHANGED <<file, focus, pastJobs, isLoadingJobs, dialog, mounted, backend,
                   intents, view>>
Tick ==
    /\ mounted
    /\ Room(1)
    /\ calls' = Issue(calls, <<ListCall("silent")>>)
    /\ toast' = NoToast
    /\ UNCHANGED <<file, focus, pastJobs, isLoadingJobs, dialog, mounted, backend,
                   intents, view>>

\* the refresh button: disabled={isLoadingJobs}
RefreshNow ==
    /\ PageActive /\ CanIntend
    /\ ~isLoadingJobs
    /\ Room(1)
    /\ isLoadingJobs' = TRUE
    /\ calls' = Issue(calls, <<ListCall("manual")>>)
    /\ intents' = intents + 1
    /\ toast' = NoToast
    /\ UNCHANGED <<file, focus, pastJobs, dialog, mounted, backend, view>>

\* --------------------------------------------------- the backend's worker
Progress(j) ==
    /\ srv[j] = "running"
    /\ \E s \in {"done", "failed"} : srv' = [srv EXCEPT ![j] = s]
    /\ UNCHANGED <<file, focus, pastJobs, isLoadingJobs, dialog, mounted, calls,
                   statusVocab, listVocab, intents, toast, view>>

Next ==
    \/ \E f \in Files : handleFileChange(f)
    \/ handleUpload
    \/ \E c \in InFlight : UploadOk(c)
    \/ \E c \in InFlight : \E e \in UploadErrors : UploadFail(c, e)
    \/ \E c \in InFlight : \E t \in JobErrors : StatusOk(c, t)
    \/ \E c \in InFlight : \E e \in CallErrors : StatusFail(c, e)
    \/ \E c \in InFlight : ListServe(c)
    \/ \E c \in InFlight : ListOk(c)
    \/ \E c \in InFlight : ListFail(c)
    \/ \E job \in pastJobs : handleJobSelect(job.job_id, job.status)
    \/ \E job \in pastJobs : handleDeleteClick(job.job_id)
    \/ handleDeleteConfirm
    \/ handleDeleteCancel
    \/ \E c \in InFlight : DeleteOk(c)
    \/ \E c \in InFlight : \E e \in CallErrors : DeleteFail(c, e)
    \/ Tick
    \/ RefreshNow
    \/ \E j \in JobIds : Progress(j)

Spec == Init /\ [][Next]_vars

\* ------------------------------------------------- vocabulary of the claims
\* a status the page shows as success (line 705) and colours as success
isSuccessStatus(s) == s = "SUCCESS" \/ s = "COMPLETED"
\* a status the history statistics count as a failure
isFailureStatus(s) == s = "FAILURE" \/ s = "FAILED"

Contains(msg, text) == \E i \in 1..Len(msg) : msg[i] = text
Listed(jobs) == {job.job_id : job \in jobs}

\* this step put a call of the kind in flight
Issued(kind) ==
    \E c \in BagToSet(calls') : c.kind = kind /\ CopiesIn(c, calls') > CopiesIn(c, calls)
Uploads == {c \in InFlight : c.kind = "upload"}
StatusFetches == {c \in InFlight : c.kind = "status"}
Deletes == {c \in InFlight : c.kind = "delete"}
AwaitedRefreshes == {c \in InFlight : c.kind = "list" /\ c.origin = "delete"}

\* the response to a status fetch is handled in this step
StatusReturns(c) ==
    \/ \E t \in JobErrors : StatusOk(c, t)
    \/ \E e \in CallErrors : StatusFail(c, e)

\* C1: last-selected-wins: the response to a status fetch for a job that is
\* no longer the focused one changes neither the focused status, nor the
\* result, nor the message.
C1_LastSelectedWins ==
    [][\A c \in StatusFetches :
          (c.job # jobId /\ StatusReturns(c)) => UNCHANGED <<status, results, message>>]_vars

\* C2: the focused result is non-null only when the focused status is
\* SUCCESS or COMPLETED.
C2_ResultOnlyOnSuccess == results # NoResults => isSuccessStatus(status)

\* C3: the response to an upload that reports from_cache with a result
\* payload makes the focused status a success status and the focused result
\* the payload of the response, and issues no status fetch.
C3_CacheHit ==
    [][\A c \in Uploads :
          (UploadOk(c) /\ UploadData(c.file).from_cache
                       /\ UploadData(c.file).results # NoResults)
          => /\ isSuccessStatus(status')
             /\ results' = UploadData(c.file).results
             /\ jobId' = UploadData(c.file).job_id
             /\ ~Issued("status")]_vars

C3_Witness ==
    /\ toast = <<"success", "File already analyzed! Results loaded from cache.">>
    /\ results = Payload("j1")
    /\ isSuccessStatus(status)
    /\ StatusFetches = {}

\* C4: when the status fetch that follows a non-cache upload reports FAILURE
\* with an error text, the focused status is FAILURE, the focused result is
\* null and the message contains the error text.
C4_FetchReportsFailure ==
    [][\A c \in StatusFetches : \A t \in JobErrors \ {NULL} :
          (c.origin = "upload" /\ StatusOk(c, t) /\ StatusData(c.job, t).status = "FAILURE")
          => /\ status' = "FAILURE"
             /\ results' = NoResults
             /\ Contains(message', t)]_vars

C4_Witness ==
    /\ status = "FAILURE"
    /\ jobId = "j1"
    /\ results = NoResults
    /\ message = <<"Analysis failed: ", JobErrorText>>
    /\ CopiesIn(ListCall("silent"), calls) = 2

\* the text of an upload failure that no backend supplied: the transport's
\* own message, or the handler's literal fallback
GenericText(e) == IF e.message = "" THEN "Network error" ELSE e.message

\* C5: a failed upload leaves the focused status a failure status and a
\* message that carries the backend's error text when there is one and a
\* generic network-error text otherwise, and issues a job-list refresh.
C5_UploadFails ==
    [][\A c \in Uploads : \A e \in UploadErrors :
          UploadFail(c, e)
          => /\ isFailureStatus(status')
             /\ e.respError # NULL => Contains(message', e.respError)
             /\ e.respError = NULL => Contains(message', GenericText(e))
             /\ Issued("list")]_vars

C5_Witness ==
    /\ status = "FAILED"
    /\ message = <<"Upload failed: ", UploadErrorText>>
    /\ \E c \in InFlight : c.kind = "list"

\* the Analyze button takes a click
AnalyzeEnabled == file # NULL /\ ~isProcessing

\* C6: at most one upload request is in flight at any time: while an upload
\* is in flight the Analyze button stays disabled, whatever happens in
\* between other than choosing a new file.
C6_AnalyzeStaysDisabled ==
    [][(/\ Uploads # {} /\ Uploads' # {}
        /\ ~AnalyzeEnabled
        /\ ~\E f \in Files : handleFileChange(f))
       => ~AnalyzeEnabled']_vars

\* the awaited refresh of a confirmDelete returns in this step, which runs
\* the finally block of handleDeleteConfirm
DeleteCompletes(c) == ListOk(c) \/ ListFail(c)

\* C7: when the delete call succeeds for the job that was focused when the
\* delete was confirmed, the focus is reset to the initial state, and when
\* confirmDelete completes the pending delete id is null.
C7_DeleteFocusedJob ==
    [][/\ \A c \in Deletes :
            (DeleteOk(c) /\ c.sel = c.job)
            => /\ jobId' = NULL /\ selectedJobId' = NULL
               /\ status' = "IDLE"
               /\ results' = NoResults
               /\ message' = InitialMessage
       /\ \A c \in AwaitedRefreshes : DeleteCompletes(c) => jobToDelete' = NULL]_vars

C7_Witness ==
    /\ toast = DeleteOkToast
    /\ \E c \in AwaitedRefreshes : c.sel = c.job /\ srv[c.job] = "none"
    /\ jobId = NULL /\ selectedJobId = NULL
    /\ status = "IDLE" /\ results = NoResults /\ message = InitialMessage

\* C8: once a confirmDelete whose delete call succeeded completes, the local
\* job list does not contain the deleted job, whether or not the list fetch
\* it awaited succeeded.
C8_DeletedJobLeavesList ==
    [][\A c \in AwaitedRefreshes : DeleteCompletes(c) => c.job \notin Listed(pastJobs')]_vars

\* C9: a failed delete call leaves the focused id, status, result and
\* message and the job list as they are, clears the pending delete id and
\* raises an error notification.
C9_DeleteFails ==
    [][\A c \in Deletes : \A e \in CallErrors :
          DeleteFail(c, e)
          => /\ UNCHANGED <<jobId, selectedJobId, status, results, message, pastJobs>>
             /\ jobToDelete' = NULL
             /\ Len(toast') > 0 /\ toast'[1] = "error"]_vars

C9_Witness ==
    /\ Len(toast) > 0 /\ toast[1] = "error"
    /\ jobToDelete = NULL
    /\ Deletes = {}

\* C10 as claimed: the deleting flag is true only while a delete call is in
\* flight.
C10_BusyOnlyDuringDeleteCall == isDeleting => Deletes # {}

\* C10: every confirmDelete that returns ends with the pending delete id
\* null, the dialog closed and the deleting flag false, and the flag is true
\* exactly while a confirmDelete runs: while its delete call, or the list
\* refresh it awaits after a successful delete, is in flight.
C10_ReleaseOnAllPaths ==
    /\ [](isDeleting <=> (Deletes # {} \/ AwaitedRefreshes # {}))
    /\ [][/\ \A c \in Deletes : \A e \in CallErrors :
               DeleteFail(c, e)
               => jobToDelete' = NULL /\ ~deleteDialogOpen' /\ ~isDeleting'
          /\ \A c \in AwaitedRefreshes :
               DeleteCompletes(c)
               => jobToDelete' = NULL /\ ~deleteDialogOpen' /\ ~isDeleting']_vars

C10_Witness ==
    /\ isDeleting
    /\ Deletes = {}
    /\ AwaitedRefreshes # {}

\* a list refresh returns in this step
ListReturns(c) == ListOk(c) \/ ListFail(c)
Refreshes == {c \in InFlight : c.kind = "list"}

\* C11: a list refresh that fails leaves the local job list as it was and
\* raises nothing to its caller (no catch block of a caller runs, so no error
\* notification appears); a refresh that succeeds replaces the whole list
\* with the fetched payload.
C11_RefreshReplacesOrKeeps ==
    [][\A c \in Refreshes :
          /\ ListFail(c) => pastJobs' = pastJobs /\ toast' = NoToast
          /\ ListOk(c) => pastJobs' = c.resp.jobs]_vars

\* a session whose only intent was a manual refresh, after the refresh of
\* the mount and the manual one both failed: the list is as it was
C11_Witness ==
    /\ intents = 1 /\ file = NULL /\ ~deleteDialogOpen
    /\ pastJobs = {}
    /\ ~isLoadingJobs
    /\ Refreshes = {}

\* C12: neither the issue, the success nor the failure of a list refresh,
\* nor the failure of a delete call, changes the focused job's id, status,
\* result or message.
C12_AncillaryKeepsFocus ==
    [][(\/ Tick
        \/ RefreshNow
        \/ \E c \in Refreshes : ListServe(c) \/ ListReturns(c)
        \/ \E c \in Deletes : \E e \in CallErrors : DeleteFail(c, e))
       => UNCHANGED <<jobId, selectedJobId, status, results, message>>]_vars

C12_Witness ==
    /\ Len(toast) > 0 /\ toast[1] = "error"
    /\ jobId = "j2" /\ selectedJobId = "j2"
    /\ results = Payload("j2")
    /\ status = "SUCCESS"

\* C13: every analyze that runs to completion issues a job-list refresh
\* after the upload response: on a cache hit, on an upload error, and when
\* the status fetch that follows a non-cache upload succeeds or fails.
C13_AnalyzeRefreshesList ==
    [][/\ \A c \in Uploads :
            /\ (UploadOk(c) /\ UploadData(c.file).from_cache) => Issued("list")
            /\ \A e \in UploadErrors : UploadFail(c, e) => Issued("list")
       /\ \A c \in StatusFetches :
            (c.origin = "upload" /\ StatusReturns(c)) => Issued("list")]_vars

C13_Witness ==
    /\ status = "FAILED"
    /\ jobId = "j1"
    /\ message = FinalErrorMessage(TransportError)
    /\ CopiesIn(ListCall("silent"), calls) = 2

\* ------------------------------------------- the unattended upload session
\* The user chooses a file and clicks Analyze and does nothing else; the
\* backend answers every call successfully and its worker finishes every job
\* successfully.
Completes(j) == Progress(j) /\ srv'[j] = "done"

PollNext ==
    \/ \E f \in Files : handleFileChange(f)
    \/ handleUpload
    \/ \E c \in InFlight : UploadOk(c)
    \/ \E c \in InFlight : \E t \in JobErrors : StatusOk(c, t)
    \/ \E c \in InFlight : ListServe(c)
    \/ \E c \in InFlight : ListOk(c)
    \/ Tick
    \/ \E j \in JobIds : Completes(j)

\* the interval keeps firing, every call in flight is answered, and the
\* worker finishes
PollFairness ==
    /\ SF_vars(Tick)
    /\ SF_vars(\E c \in InFlight : UploadOk(c))
    /\ SF_vars(\E c \in InFlight : \E t \in JobErrors : StatusOk(c, t))
    /\ SF_vars(\E c \in InFlight : ListServe(c))
    /\ SF_vars(\E c \in InFlight : ListOk(c))
    /\ WF_vars(\E j \in JobIds : Completes(j))

PollSpec == Init /\ [][PollNext]_vars /\ PollFairness

\* the status fetch that follows a non-cached upload of the focused job is
\* in flight, and no other call is
AwaitingAnalysis ==
    /\ \E c \in StatusFetches : c.origin = "upload" /\ c.job = jobId
    /\ BagCardinality(calls) = 1
ShowsResults == isSuccessStatus(status) /\ results # NoResults

\* C14: after a non-cached upload, when the backend job reaches success and
\* every call succeeds, the focused status eventually becomes a success
\* status with the result populated, unless the user has moved the focus
\* away by choosing another file.
C14_PollsUntilSuccess == AwaitingAnalysis ~> (ShowsResults \/ jobId = NULL)

\* C15: selectJob with a known status of SUCCESS or COMPLETED issues one
\* status fetch, and when that fetch returns a success status with a result
\* payload for the job still focused, the focused result becomes the payload
\* and the focused status is a success status.
C15_SelectShowsResults ==
    [][/\ \A job \in pastJobs :
            (handleJobSelect(job.job_id, job.status) /\ isSuccessStatus(job.status))
            => calls' = calls (+) SetToBag({StatusCall(job.job_id, "select")})
       /\ \A c \in StatusFetches : \A t \in JobErrors :
            (/\ c.origin = "select" /\ c.job = jobId
             /\ StatusOk(c, t)
             /\ isSuccessStatus(StatusData(c.job, t).status)
             /\ StatusData(c.job, t).results # NoResults)
            => /\ results' = StatusData(c.job, t).results
               /\ isSuccessStatus(status')]_vars

\* a status of a job in progress
isNonTerminal(s) == ~isSuccessStatus(s) /\ ~isFailureStatus(s)

\* C16: selectJob with a non-terminal known status issues no backend call
\* and leaves the focus at the job's id, the known status and a null result.
C16_SelectInProgress ==
    [][\A job \in pastJobs :
          (handleJobSelect(job.job_id, job.status) /\ isNonTerminal(job.status))
          => /\ calls' = calls
             /\ jobId' = job.job_id /\ selectedJobId' = job.job_id
             /\ status' = job.status
             /\ results' = NoResults]_vars

C16_Witness ==
    /\ jobId = "j1" /\ selectedJobId = "j1"
    /\ status \in {"STARTED", "RUNNING"}
    /\ results = NoResults
    /\ message = SelectMessage("j1", status)
    /\ StatusFetches = {}

\* C17: when the status fetch issued by selectJob for the job still focused
\* fails, the focused status is a failure status, the focused result is
\* null and the message carries the error text.
C17_SelectFetchFails ==
    [][\A c \in StatusFetches : \A e \in CallErrors :
          (c.origin = "select" /\ c.job = jobId /\ StatusFail(c, e))
          => /\ isFailureStatus(status')
             /\ results' = NoResults
             /\ Contains(message', Or(e.respError, e.message))]_vars

\* C18: selectFile issues no backend call and leaves the focused id null,
\* the status IDLE, the result null, the chosen file recorded and a message
\* naming the file, from any prior state.
C18_SelectFile ==
    [][\A f \in Files :
          handleFileChange(f)
          => /\ calls' = calls
             /\ jobId' = NULL /\ selectedJobId' = NULL
             /\ status' = "IDLE"
             /\ results' = NoResults
             /\ file' = f
             /\ Contains(message', f)]_vars

\* a file chosen while the fetch of a selected job is still in flight
C18_Witness ==
    /\ file = "a.csv"
    /\ jobId = NULL /\ selectedJobId = NULL
    /\ status = "IDLE" /\ results = NoResults
    /\ message = <<"Ready to upload file: ", "a.csv">>
    /\ \E c \in StatusFetches : c.origin = "select"

\* C19: the chosen file is cleared when an upload starts: once analyze has
\* set the status to UPLOADING, the chosen file is null.
C19_FileClearedOnUpload == status = "UPLOADING" => file = NULL

\* ---------------------------------------------- the dashboard's life cycle
\* the cleanup of the mount effect: clearInterval(intervalId)
Unmount ==
    /\ mounted
    /\ mounted' = FALSE
    /\ UNCHANGED <<file, focus, pastJobs, isLoadingJobs, dialog, calls, backend,
                   intents, toast, view>>

MountNext == Next \/ Unmount
MountSpec == Init /\ [][MountNext]_vars

\* C20: the polling timer exists exactly while the dashboard is mounted: it
\* is set at mount, cancelled by the unmount and never set again; no tick
\* fires after the unmount, and every tick while mounted issues a list
\* refresh.
C20_TimerFollowsMount ==
    [][/\ Tick => mounted /\ Issued("list")
       /\ Unmount => ~mounted'
       /\ ~mounted => ~mounted']_vars

\* the dashboard after its unmount, a refresh having filled the list before
C20_Witness ==
    /\ ~mounted
    /\ pastJobs # {}
    /\ Refreshes = {}

\* the step that handles the return of call c puts a call of the same kind
\* in flight
Reissued(c) ==
    \E u \in BagToSet(calls') :
        u.kind = c.kind /\ CopiesIn(u, calls') > CopiesIn(u, calls (-) SetToBag({c}))

\* C21: no automatic retry: the failure of an upload, status-fetch, delete
\* or list call does not issue that call again; uploads and deletes are
\* issued only by analyze and confirmDelete, and status fetches only by
\* selectJob and by the upload response they follow.
C21_NoAutomaticRetry ==
    [][/\ \A c \in Uploads : \A e \in UploadErrors : UploadFail(c, e) => ~Reissued(c)
       /\ \A c \in StatusFetches : \A e \in CallErrors : StatusFail(c, e) => ~Reissued(c)
       /\ \A c \in Deletes : \A e \in CallErrors : DeleteFail(c, e) => ~Reissued(c)
       /\ \A c \in Refreshes : ListFail(c) => ~Reissued(c)
       /\ Issued("upload") => handleUpload
       /\ Issued("delete") => handleDeleteConfirm
       /\ Issued("status") =>
            \/ \E job \in pastJobs : handleJobSelect(job.job_id, job.status)
            \/ \E c \in Uploads : UploadOk(c)]_vars

\* a failed upload behind, and neither an upload nor a status fetch in flight
C21_Witness ==
    /\ status = "FAILED"
    /\ message = UploadFailureMessage(TransportError)
    /\ Uploads = {} /\ StatusFetches = {}

\* C22: when a successful delete of a job races with an outstanding list
\* refresh, the local job list does not contain the job once the delete and
\* every refresh in flight have completed: the last refresh response to be
\* handled does not bring a deleted job back into a list that had lost it.
C22_StaleRefreshAfterDelete ==
    [][\A c \in Refreshes : \A j \in JobIds :
          (/\ ListOk(c) /\ Refreshes' = {} /\ Deletes' = {}
           /\ srv[j] = "none" /\ j \notin Listed(pastJobs))
          => j \notin Listed(pastJobs')]_vars

\* C23: requestDelete and cancelDelete issue no backend call and change only
\* the pending delete id and the dialog-open flag: the focus and the job
\* list are unchanged; after requestDelete the pending delete id is the
\* job's id, after cancelDelete it is null.
C23_DialogOnly ==
    [][/\ \A job \in pastJobs :
            handleDeleteClick(job.job_id)
            => /\ jobToDelete' = job.job_id /\ deleteDialogOpen'
               /\ UNCHANGED <<calls, file, jobId, selectedJobId, status, results,
                              message, pastJobs, isDeleting, isLoadingJobs>>
       /\ handleDeleteCancel
            => /\ jobToDelete' = NULL /\ ~deleteDialogOpen'
               /\ UNCHANGED <<calls, file, jobId, selectedJobId, status, results,
                              message, pastJobs, isDeleting, isLoadingJobs>>]_vars

\* the dialog dismissed while the delete call of its job is still in flight
C23_Witness ==
    /\ ~deleteDialogOpen /\ jobToDelete = NULL
    /\ isDeleting /\ Deletes # {}

\* C27: each non-cache analyze issues exactly one status fetch for the new
\* job id, after the upload response; when that fetch reports a non-terminal
\* status for the job still focused, no further status fetch is issued and
\* the focus is left in that status with a null result.
C27_SingleStatusFetch ==
    [][/\ \A c \in Uploads :
            (UploadOk(c) /\ ~UploadData(c.file).from_cache)
            => calls' = (calls (-) SetToBag({c}))
                        (+) SetToBag({StatusCall(UploadData(c.file).job_id, "upload")})
       /\ \A c \in StatusFetches : \A t \in JobErrors :
            (/\ c.origin = "upload" /\ c.job = jobId
             /\ StatusOk(c, t)
             /\ isNonTerminal(StatusData(c.job, t).status))
            => /\ ~Reissued(c)
               /\ status' = StatusData(c.job, t).status
               /\ results' = NoResults]_vars

\* the focus is the initial one
FocusReset ==
    /\ jobId = NULL /\ selectedJobId = NULL
    /\ status = "IDLE" /\ results = NoResults /\ message = InitialMessage

\* C28: on a successful delete of a job, the focus is reset if and only if
\* the job focused when the delete response is handled is the deleted job;
\* a focus on another job is left unchanged.
C28_ResetIffFocused ==
    [][\A c \in Deletes :
          DeleteOk(c)
          => IF jobId = c.job
             THEN FocusReset'
             ELSE UNCHANGED <<jobId, selectedJobId, status, results, message>>]_vars

\* the statuses of a job in progress
InProgress == {"UPLOADING", "PENDING", "RUNNING", "STARTED"}

\* C29: whenever the focused status is an in-progress one (UPLOADING,
\* PENDING, RUNNING or its synonym STARTED), the Analyze button is disabled.
C29_AnalyzeDisabledInProgress == status \in InProgress => ~AnalyzeEnabled

ManualRefreshes == {c \in Refreshes : c.origin = "manual"}

\* C30: the list-loading flag is true exactly while a manual refresh is in
\* flight, and at most one manual refresh is in flight at a time.
C30_LoadingFlag ==
    /\ isLoadingJobs <=> ManualRefreshes # {}
    /\ Cardinality(ManualRefreshes) <= 1
    /\ \A c \in ManualRefreshes : CopiesIn(c, calls) = 1

\* a manual refresh and a silent one in flight together
C30_Witness ==
    /\ isLoadingJobs
    /\ ManualRefreshes # {}
    /\ \E c \in Refreshes : c.origin = "silent" /\ c.resp.ready

\* ------------------------------------- the classifier and the formatters
PRIMARY_COLOR == "#107a8b"
SUCCESS_COLOR == "#169950"
FAILURE_COLOR == "#d9534f"

\* a status string as the sequence of its characters
Spelling ==
    [SUCCESS |-> <<"S", "U", "C", "C", "E", "S", "S">>,
     COMPLETED |-> <<"C", "O", "M", "P", "L", "E", "T", "E", "D">>,
     FAILURE |-> <<"F", "A", "I", "L", "U", "R", "E">>,
     FAILED |-> <<"F", "A", "I", "L", "E", "D">>,
     PENDING |-> <<"P", "E", "N", "D", "I", "N", "G">>,
     RUNNING |-> <<"R", "U", "N", "N", "I", "N", "G">>,
     STARTED |-> <<"S", "T", "A", "R", "T", "E", "D">>,
     IDLE |-> <<"I", "D", "L", "E">>,
     UPLOADING |-> <<"U", "P", "L", "O", "A", "D", "I", "N", "G">>,
     RETRY |-> <<"R", "E", "T", "R", "Y">>,
     REVOKED |-> <<"R", "E", "V", "O", "K", "E", "D">>,
     TASK_FAILED |-> <<"T", "A", "S", "K", "_", "F", "A", "I", "L", "E", "D">>,
     FAIL |-> <<"F", "A", "I", "L">>]
RawStatuses == {Spelling[k] : k \in DOMAIN Spelling} \cup {<<>>}

\* String.prototype.includes
includes(s, sub) ==
    \E i \in 1..(Len(s) - Len(sub) + 1) : SubSeq(s, i, i + Len(sub) - 1) = sub

getStatusColor(currentStatus) ==
    IF currentStatus = Spelling.SUCCESS \/ currentStatus = Spelling.COMPLETED
    THEN SUCCESS_COLOR
    ELSE IF includes(currentStatus, Spelling.FAIL) \/ includes(currentStatus, Spelling.FAILURE)
    THEN FAILURE_COLOR
    ELSE PRIMARY_COLOR

\* the counter of getJobStats a job of this status adds to; NULL when none
StatsKey(s) ==
    IF s = Spelling.SUCCESS \/ s = Spelling.COMPLETED THEN "SUCCESS"
    ELSE IF s = Spelling.FAILURE \/ s = Spelling.FAILED THEN "FAILURE"
    ELSE IF s = Spelling.PENDING THEN "PENDING"
    ELSE IF s = Spelling.RUNNING \/ s = Spelling.STARTED THEN "RUNNING"
    ELSE NULL

\* how the page classifies a raw status: its statistics counter and colour
classify(s) == [key |-> StatsKey(s), color |-> getStatusColor(s)]

\* JavaScript values of the result payload, tagged with their type
Undefined == <<"undefined">>
Str(t) == <<"string", t>>
Num(n) == <<"number", n>>
Obj(fields) == <<"object", fields>>
Falsy(v) ==
    \/ v[1] = "undefined"
    \/ v[1] = "number" /\ v[2] = 0
    \/ v[1] = "string" /\ v[2] = ""
\* a || b on tagged values
OrElse(a, b) == IF Falsy(a) THEN b ELSE a
\* o?.name
Field(o, name) ==
    IF o[1] = "object" /\ name \in DOMAIN o[2] THEN o[2][name] ELSE Undefined

SummaryFallback == Str("Analysis summary is not available.")
CorrelationFallback == Str("N/A")

formatKpiDataNoFallback(payload) ==
    <<[label |-> "REPORT SUMMARY",
       value |-> Field(payload, "report_summary"),
       color |-> PRIMARY_COLOR, isSummary |-> TRUE],
      [label |-> "TEMP VS HUMIDITY CORRELATION (R2)",
       value |-> Field(Field(payload, "regression_analysis"), "temp_humidity_r2"),
       color |-> SUCCESS_COLOR]>>
formatKpiData(payload) ==
    <<[label |-> "REPORT SUMMARY",
       value |-> OrElse(Field(payload, "report_summary"), SummaryFallback),
       color |-> PRIMARY_COLOR, isSummary |-> TRUE],
      [label |-> "TEMP VS HUMIDITY CORRELATION (R2)",
       value |-> OrElse(Field(Field(payload, "regression_analysis"), "temp_humidity_r2"),
                        CorrelationFallback),
       color |-> SUCCESS_COLOR]>>

\* date and now in milliseconds
getTimeAgoInclusive(date, now) ==
    LET diffInSeconds == (now - date) \div 1000
    IN IF diffInSeconds <= 60 THEN <<diffInSeconds, "s ago">>
       ELSE IF diffInSeconds <= 3600 THEN <<diffInSeconds \div 60, "m ago">>
       ELSE IF diffInSeconds <= 86400 THEN <<diffInSeconds \div 3600, "h ago">>
       ELSE <<diffInSeconds \div 86400, "d ago">>
getTimeAgo(date, now) ==
    LET diffInSeconds == (now - date) \div 1000
    IN IF diffInSeconds < 60 THEN <<diffInSeconds, "s ago">>
       ELSE IF diffInSeconds < 3600 THEN <<diffInSeconds \div 60, "m ago">>
       ELSE IF diffInSeconds < 86400 THEN <<diffInSeconds \div 3600, "h ago">>
       ELSE <<diffInSeconds \div 86400, "d ago">>

\* ---------------------------------------------- what a render is given
Summaries == {Undefined, Str(""), Str("Warm and humid.")}
Regressions ==
    {Undefined, Obj(<<>>), Obj([temp_humidity_r2 |-> Num(0)]),
     Obj([temp_humidity_r2 |-> Num(42)])}
\* a payload holding the fields that are present
PayloadOf(summary, regression) ==
    Obj([k \in {n \in {"report_summary", "regression_analysis"} :
                  IF n = "report_summary" THEN summary # Undefined
                  ELSE regression # Undefined}
          |-> IF k = "report_summary" THEN summary ELSE regression])
ResultPayloads ==
    {PayloadOf(s, r) : s \in Summaries, r \in Regressions} \cup {Undefined}

\* job ages in seconds, and the clock in milliseconds
Ages == {0 - 5, 0 - 1, 0, 1, 45, 59, 60, 61, 119, 120, 125, 3599, 3600, 3601, 7199,
         7200, 86399, 86400, 86401, 172799, 172800, 172801, 1000000}
Nows == {1000000000, 1000000500}
Timestamps == {<<1000000000 - d * 1000, now>> : d \in Ages, now \in Nows}

Rendering(fn, arg) == [fn |-> fn, arg |-> arg, out |-> <<>>, done |-> FALSE]

\* the dashboard as mounted, about to render one value
FormatInit ==
    /\ file = NULL /\ jobId = NULL /\ status = "IDLE" /\ results = NoResults
    /\ message = InitialMessage /\ pastJobs = {} /\ selectedJobId = NULL
    /\ isLoadingJobs = FALSE /\ deleteDialogOpen = FALSE /\ jobToDelete = NULL
    /\ isDeleting = FALSE /\ mounted = TRUE
    /\ calls = SetToBag({ListCall("silent")})
    /\ srv = InitialServer /\ statusVocab = "celery" /\ listVocab = "celery"
    /\ intents = 0 /\ toast = NoToast
    /\ \/ \E s \in RawStatuses : view = Rendering("classify", s)
       \/ \E r \in ResultPayloads : view = Rendering("formatKpiData", r)
       \/ \E t \in Timestamps : view = Rendering("getTimeAgo", t)

Rendered(out) ==
    /\ ~view.done
    /\ view' = [view EXCEPT !.out = out, !.done = TRUE]
    /\ UNCHANGED <<file, focus, pastJobs, isLoadingJobs, dialog, mounted, calls,
                   backend, intents, toast>>

RenderStatus == view.fn = "classify" /\ Rendered(classify(view.arg))
RenderKpi == view.fn = "formatKpiData" /\ Rendered(formatKpiData(view.arg))
RenderTimeAgo == view.fn = "getTimeAgo" /\ Rendered(getTimeAgo(view.arg[1], view.arg[2]))

FormatNext == RenderStatus \/ RenderKpi \/ RenderTimeAgo
FormatSpec == FormatInit /\ [][FormatNext]_vars

Done(fn) == view.fn = fn /\ view.done

\* C24: SUCCESS and COMPLETED classify as success, every string containing
\* FAIL as failure, PENDING as pending, RUNNING and STARTED as running, any
\* other string is passed through with the neutral colour, and classifying a
\* canonical label yields the same classification again.
C24_ClassifyTable ==
    Done("classify") =>
        LET s == view.arg
            o == view.out
        IN /\ s \in {Spelling.SUCCESS, Spelling.COMPLETED} => o.key = "SUCCESS"
           /\ includes(s, Spelling.FAIL) => o.key = "FAILURE"
           /\ s = Spelling.PENDING => o.key = "PENDING"
           /\ s \in {Spelling.RUNNING, Spelling.STARTED} => o.key = "RUNNING"
           /\ (/\ s \notin {Spelling.SUCCESS, Spelling.COMPLETED, Spelling.PENDING,
                            Spelling.RUNNING, Spelling.STARTED}
               /\ ~includes(s, Spelling.FAIL))
              => o.key = NULL /\ o.color = PRIMARY_COLOR
           /\ o.key # NULL => classify(Spelling[o.key]) = o

LacksSummary(r) == Field(r, "report_summary") = Undefined
LacksCorrelation(r) ==
    Field(Field(r, "regression_analysis"), "temp_humidity_r2") = Undefined

AgeOf(t) == (t[2] - t[1]) \div 1000

\* C26: for an age of d seconds, getTimeAgo returns d 's ago' when d < 60
\* (negative d included: it is not guarded), floor(d/60) 'm ago' when
\* 60 <= d < 3600, floor(d/3600) 'h ago' when 3600 <= d < 86400 and
\* floor(d/86400) 'd ago' otherwise; 45 gives 45s, 125 gives 2m, 7200 gives
\* 2h and 172800 gives 2d.
C26_TimeAgoBuckets ==
    Done("getTimeAgo") =>
        LET d == AgeOf(view.arg)
            o == view.out
        IN /\ d < 60 => o = <<d, "s ago">>
           /\ (60 <= d /\ d < 3600) => o[2] = "m ago" /\ o[1] * 60 <= d /\ d < (o[1] + 1) * 60
           /\ (3600 <= d /\ d < 86400)
                => o[2] = "h ago" /\ o[1] * 3600 <= d /\ d < (o[1] + 1) * 3600
           /\ 86400 <= d => o[2] = "d ago" /\ o[1] * 86400 <= d /\ d < (o[1] + 1) * 86400
           /\ d = 45 => o = <<45, "s ago">>
           /\ d = 125 => o = <<2, "m ago">>
           /\ d = 7200 => o = <<2, "h ago">>
           /\ d = 172800 => o = <<2, "d ago">>
           /\ d < 0 => o[1] < 0

C26_Witness ==
    /\ Done("getTimeAgo")
    /\ AgeOf(view.arg) = 172800
    /\ view.out = <<2, "d ago">>

\* C31: the displayed job id and the history-list selection are equal in
\* every reachable state: every handler that writes one writes the other to
\* the same value, so at most one job is focused.
C31_SingleFocus ==
    /\ jobId = selectedJobId
    /\ jobId \in JobIds \cup {NULL}

\* a job is focused, as the displayed job and as the selection, while a
\* delete of that job that will reset both is in flight
C31_Witness ==
    /\ jobId = "j2" /\ selectedJobId = "j2"
    /\ \E c \in Deletes : c.job = "j2" /\ DeleteResets(c)

\* the response to an upload is handled in this step
UploadReturns(c) == UploadOk(c) \/ \E e \in UploadErrors : UploadFail(c, e)

\* the message on display is one that only handleFileChange or
\* handleJobSelect writes; with an upload in flight, that handler ran after
\* the upload was issued, because handleUpload writes its own message
FocusedByUser ==
    \/ message[1] = "Ready to upload file: "
    \/ message[1] = "Fetching completed results for Job ID: "
    \/ Contains(message, "... is currently ")

\* C32: a focus change made while an upload is in flight is not overwritten by
\* that upload's late response: when the user selected a file or a job after
\* the upload was issued, handling the response leaves the focused id, phase
\* and result as that later action set them.
C32_LateUploadKeepsFocus ==
    [][\A c \in Uploads :
          (FocusedByUser /\ UploadReturns(c))
              => UNCHANGED <<jobId, selectedJobId, status, results>>]_vars

====
